---------------------------- MODULE Spec2Model ----------------------------
(***************************************************************************)
(* A model of stream.c (STREAM 5.10 with the /dev/mem mapping extension):  *)
(* argument processing, buffer provisioning, the parallel initialisation,  *)
(* warm-up and Copy/Scale/Add/Triad loops, the timing summary, the result  *)
(* validation (checkSTREAMresults) and the teardown.                       *)
(*                                                                         *)
(* Numbers.  TLC's integers have 32 bits while ssize_t has 64, and the     *)
(* default device offset is 2^32.  A byte count or byte offset is          *)
(* therefore held as a pair <<hi, lo>> that stands for hi * 4096 + lo      *)
(* with 0 <= lo < 4096 (hi may be negative: the pair is the two's          *)
(* complement split at bit 12).  Array elements, times and rates are       *)
(* doubles, computed in IEEE-754 binary64 arithmetic (see below).  The     *)
(* clock is the rdcycle counter, a number of cycles; mysecond() is that    *)
(* count divided by CLOCK_PER_SEC, as a double.                            *)
(***************************************************************************)
EXTENDS Integers, Sequences, FiniteSets, TLC

VARIABLES
    pc,                 \* the place of the main thread in main()
    argc, argv,         \* argv[1..3]; an absent argument is <<>>
    nthreads,           \* size of the OpenMP team (OMP_NUM_THREADS)
    buffer_size,        \* <<hi, lo>> bytes
    offset,             \* <<hi, lo>> bytes
    stream_array_size,  \* elements per buffer
    bytes,              \* bytes[0..3], each <<hi, lo>>
    fid,                \* file descriptor; indeterminate until open()
    ptr,                \* what each of a, b, c points to
    mapoff,             \* the device offset each buffer was mapped at
    a, b, c,            \* the buffers' contents
    issued,             \* number of parallel loops opened so far
    wl, pos,            \* per worker: the loop it is in, its next index
    hits,               \* per index: iterations executed in the open loop
    touched,            \* per worker: elements accessed in the open loop
    cycles,             \* the cycle counter read by mysecond()
    advances,           \* the counter's advances from one mysecond() call
                        \* to the next, a cyclic pattern
    timesfound,         \* checktick()'s samples
    quantum, t,         \* checktick()'s result; the warm-up's time
    times,              \* times[0..3][0..NTIMES-1]
    avgtime, mintime, maxtime,
    bestrate,           \* the Best Rate column, in tenths of a MB/s
    chk,                \* what checkSTREAMresults computed and reported
    released,           \* how each buffer was released
    closed,             \* descriptors passed to close()
    teardowns,          \* times the teardown block ran
    out,                \* tags of the lines printed
    exit                \* "running", "0" or "SIGSEGV"

vars == <<pc, argc, argv, nthreads, buffer_size, offset, stream_array_size,
          bytes, fid, ptr, mapoff, a, b, c, issued, wl, pos, hits, touched,
          cycles, advances, timesfound, quantum, t, times,
          avgtime, mintime, maxtime, bestrate, chk,
          released, closed, teardowns, out, exit>>

(***************************************************************************)
(* Bounds of the model.                                                    *)
(***************************************************************************)
\* Repetitions of the four kernels.  The source's default is 10; after 8
\* rounds the values pass 2^31, so the model runs fewer.
NTIMES == 3
\* Largest OpenMP team.
MaxWorkers == 2
\* Elements a worker processes in one step of the model.
Block == 256
\* Longest generated argument string (specification SpecArgs).
MaxArgLen == 2

(***************************************************************************)
(* Program constants.                                                      *)
(***************************************************************************)
STREAM_ARRAY_SIZE == 10
OFFSET == 0
SizeofStreamType == 8
PageSize == 4096
M == 20
CLOCK_PER_SEC == 100000000
scalar == 3

Bufs == {"a", "b", "c"}
Kernels == 0..3

(***************************************************************************)
(* 64-bit values as <<hi, lo>> = hi * 4096 + lo.                           *)
(***************************************************************************)
W(h, l) == <<h + (l \div PageSize), l % PageSize>>
ToW(n) == W(0, n)
WAdd(x, y) == W(x[1] + y[1], x[2] + y[2])
WMul(n, x) == W(n * x[1], n * x[2])
WNeg(x) == W(0 - x[1], 0 - x[2])
WLeqZero(x) == x[1] < 0 \/ (x[1] = 0 /\ x[2] = 0)
WLeq(x, y) == x[1] < y[1] \/ (x[1] = y[1] /\ x[2] <= y[2])
WLess(x, y) == WLeq(x, y) /\ x # y
\* x & ~0xFFF: clear the low twelve bits.
AndNotFFF(x) == <<x[1], 0>>
\* x / n for x >= 0 and n dividing 4096, as a plain integer.
WDiv(x, n) == x[1] * (PageSize \div n) + (x[2] \div n)

DefaultBufferSize == ToW((STREAM_ARRAY_SIZE + OFFSET) * SizeofStreamType)
\* 0x100000000
DefaultOffset == <<1048576, 0>>

(***************************************************************************)
(* IEEE-754 binary64 arithmetic on non-negative values.  A double is held  *)
(* as the one-element sequence <<n>> when it is an integer n below 2^31,   *)
(* and otherwise as <<e, l1, ..., lk>>, which stands for m * 2^e with the  *)
(* odd natural m = l1 + l2 * LimbBase + ... : every double has exactly one *)
(* of these forms.  The arithmetic is done on naturals of Limbs digits of  *)
(* LimbBits bits each, least significant first; each operation computes    *)
(* the exact result and rounds it to Mantissa significant bits, to         *)
(* nearest, ties to even.                                                  *)
(***************************************************************************)
LimbBits == 12
LimbBase == 2 ^ LimbBits
Limbs == 10
Mantissa == 53
INT_MAX == 2147483647

NoLimbs == [i \in 1..Limbs |-> 0]

FromInt(n) ==
    [i \in 1..Limbs |->
        CASE i = 1 -> n % LimbBase
          [] i = 2 -> (n \div LimbBase) % LimbBase
          [] i = 3 -> n \div (LimbBase * LimbBase)
          [] OTHER -> 0]

\* The value of x, for x < 2^31.
ToInt(x) == x[1] + LimbBase * (x[2] + LimbBase * x[3])

At(x, i) == IF i >= 1 /\ i <= Limbs THEN x[i] ELSE 0

\* x * 2^k, and the whole part of x / 2^k.
ShiftLeft(x, k) ==
    LET q == k \div LimbBits
        r == k % LimbBits
    IN  [i \in 1..Limbs |->
            ((At(x, i - q) * 2 ^ r) % LimbBase)
            + (At(x, i - q - 1) \div 2 ^ (LimbBits - r))]
ShiftRight(x, k) ==
    LET q == k \div LimbBits
        r == k % LimbBits
    IN  [i \in 1..Limbs |->
            (At(x, i + q) \div 2 ^ r)
            + (At(x, i + q + 1) % 2 ^ r) * 2 ^ (LimbBits - r)]

\* x * m, for m < 2^19
RECURSIVE MulSmall(_, _, _, _)
MulSmall(x, m, i, carry) ==
    IF i > Limbs THEN x
    ELSE LET cur == x[i] * m + carry
         IN  MulSmall([x EXCEPT ![i] = cur % LimbBase], m, i + 1,
                      cur \div LimbBase)

\* The quotient and the remainder of x by d, for d < 2^19.
RECURSIVE DivSmall(_, _, _, _)
DivSmall(x, d, i, r) ==
    IF i = 0 THEN [q |-> x, r |-> r]
    ELSE LET cur == r * LimbBase + x[i]
         IN  DivSmall([x EXCEPT ![i] = cur \div d], d, i - 1, cur % d)

RECURSIVE AddLimbs(_, _, _, _)
AddLimbs(x, y, i, carry) ==
    IF i > Limbs THEN x
    ELSE LET cur == x[i] + y[i] + carry
         IN  AddLimbs([x EXCEPT ![i] = cur % LimbBase], y, i + 1,
                      cur \div LimbBase)

\* x - y, for x >= y
RECURSIVE SubLimbs(_, _, _, _)
SubLimbs(x, y, i, borrow) ==
    IF i > Limbs THEN x
    ELSE LET cur == x[i] - y[i] - borrow
         IN  SubLimbs([x EXCEPT ![i] = cur % LimbBase], y, i + 1,
                      IF cur < 0 THEN 1 ELSE 0)

LessLimbs(x, y) ==
    \E h \in 1..Limbs : x[h] < y[h] /\ \A k \in (h + 1)..Limbs : x[k] = y[k]

\* The number of significant bits of a digit v # 0, and of x.
Width(v) == CHOOSE n \in 1..LimbBits : v >= 2 ^ (n - 1) /\ v < 2 ^ n
Highest(x) ==
    CHOOSE h \in 1..Limbs : x[h] # 0 /\ \A k \in (h + 1)..Limbs : x[k] = 0
BitLen(x) ==
    IF x = NoLimbs THEN 0
    ELSE (Highest(x) - 1) * LimbBits + Width(x[Highest(x)])

\* The number of zero bits below the lowest set bit of a digit v # 0, and
\* of x # 0.
Zeros(v) ==
    CHOOSE n \in 0..(LimbBits - 1) : v % 2 ^ n = 0 /\ v % 2 ^ (n + 1) # 0
Lowest(x) ==
    CHOOSE l \in 1..Limbs : x[l] # 0 /\ \A k \in 1..(l - 1) : x[k] = 0
LowZeros(x) == (Lowest(x) - 1) * LimbBits + Zeros(x[Lowest(x)])

Bit(x, k) == (At(x, (k \div LimbBits) + 1) \div (2 ^ (k % LimbBits))) % 2

\* x with its k low bits cleared; whether those bits were all clear.
ClearLow(x, k) ==
    [i \in 1..Limbs |->
        IF i * LimbBits <= k THEN 0
        ELSE IF (i - 1) * LimbBits >= k THEN x[i]
        ELSE x[i] - (x[i] % 2 ^ (k - (i - 1) * LimbBits))]
LowClear(x, k) == ClearLow(x, k) = x

PowerOfTwo(k) ==
    [i \in 1..Limbs |->
        IF i = (k \div LimbBits) + 1 THEN 2 ^ (k % LimbBits) ELSE 0]

\* x rounded to a multiple of 2^drop, to nearest, ties to even; `sticky`
\* tells that the exact value lies above x by less than one.
RoundAt(x, drop, sticky) ==
    IF drop <= 0 THEN x
    ELSE IF /\ Bit(x, drop - 1) = 1
            /\ (sticky \/ ~LowClear(x, drop - 1) \/ Bit(x, drop) = 1)
         THEN AddLimbs(ClearLow(x, drop), PowerOfTwo(drop), 1, 0)
         ELSE ClearLow(x, drop)

\* x rounded to Mantissa significant bits.
Round(x, sticky) == RoundAt(x, BitLen(x) - Mantissa, sticky)

\* The product of x and y.
RECURSIVE Column(_, _, _, _)
Column(x, y, k, i) ==
    IF i > k THEN 0 ELSE x[i] * y[k + 1 - i] + Column(x, y, k, i + 1)
RECURSIVE Carry(_, _, _)
Carry(x, i, carry) ==
    IF i > Limbs THEN x
    ELSE LET cur == x[i] + carry
         IN  Carry([x EXCEPT ![i] = cur % LimbBase], i + 1, cur \div LimbBase)
MulLimbs(x, y) == Carry([k \in 1..Limbs |-> Column(x, y, k, 1)], 1, 0)

\* The largest digit below LimbBase whose product with d is at most x,
\* found bit by bit.
RECURSIVE Digit(_, _, _, _)
Digit(x, d, bit, got) ==
    IF bit < 0 THEN got
    ELSE LET more == got + 2 ^ bit
         IN  IF LessLimbs(x, MulSmall(d, more, 1, 0))
             THEN Digit(x, d, bit - 1, got)
             ELSE Digit(x, d, bit - 1, more)

\* The quotient and the remainder of the digits i..Limbs of x by d, digit
\* by digit from the highest: the remainder so far with the next digit of
\* x below it is cur, and its quotient by d is the next digit of q.
Place(q, cur, d, i, dgt) ==
    [q |-> [q EXCEPT ![i] = dgt],
     r |-> SubLimbs(cur, MulSmall(d, dgt, 1, 0), 1, 0)]
Bring(q, cur, d, i) ==
    Place(q, cur, d, i,
          IF LessLimbs(cur, d) THEN 0 ELSE Digit(cur, d, LimbBits - 1, 0))
Lower(up, xi, d, i) ==
    Bring(up.q, [k \in 1..Limbs |-> IF k = 1 THEN xi ELSE up.r[k - 1]], d, i)
RECURSIVE LongDiv(_, _, _)
LongDiv(x, d, i) ==
    IF i > Limbs THEN [q |-> NoLimbs, r |-> NoLimbs]
    ELSE Lower(LongDiv(x, d, i + 1), x[i], d, i)

\* The whole part of x / d, and whether it is the exact quotient.
Whole(qr, zero) == [q |-> qr.q, exact |-> qr.r = zero]
DivLimbs(x, d) ==
    IF BitLen(d) <= 31 - LimbBits
    THEN Whole(DivSmall(x, ToInt(d), Limbs, 0), 0)
    ELSE Whole(LongDiv(x, d, 1), NoLimbs)

\* The double, or the natural, n * 2^e in its one form; PackOdd for odd n.
PackOdd(m, e) ==
    IF e >= 0 /\ BitLen(m) + e <= 31 THEN <<ToInt(m) * 2 ^ e>>
    ELSE <<e>> \o
         [i \in 1..((BitLen(m) + LimbBits - 1) \div LimbBits) |-> m[i]]
Pack(n, e) ==
    IF n = NoLimbs THEN <<0>>
    ELSE PackOdd(ShiftRight(n, LowZeros(n)), e + LowZeros(n))

\* x = Mant(x) * 2^Expo(x); Top(x) is the exponent of the bit above the
\* leading one.
Mant(x) ==
    IF Len(x) = 1 THEN FromInt(x[1])
    ELSE [i \in 1..Limbs |-> IF i < Len(x) THEN x[i + 1] ELSE 0]
Expo(x) == IF Len(x) = 1 THEN 0 ELSE x[1]
Top(x) == Expo(x) + BitLen(Mant(x))

\* An operand this many bits below the other does not change a sum or a
\* difference.
Guard == Mantissa + 3

\* The lesser exponent of x and y, and the significand of x at exponent e.
Common(x, y) == IF Expo(x) < Expo(y) THEN Expo(x) ELSE Expo(y)
Align(x, e) == ShiftLeft(Mant(x), Expo(x) - e)

\* x + y
Plus(x, y) ==
    IF Len(x) = 1 /\ Len(y) = 1 /\ x[1] <= INT_MAX - y[1]
    THEN <<x[1] + y[1]>>
    ELSE IF x = <<0>> \/ Top(x) < Top(y) - Guard THEN y
    ELSE IF y = <<0>> \/ Top(y) < Top(x) - Guard THEN x
    ELSE Pack(Round(AddLimbs(Align(x, Common(x, y)),
                             Align(y, Common(x, y)), 1, 0), FALSE),
              Common(x, y))

\* x < y
Less(x, y) ==
    IF Len(x) = 1 /\ Len(y) = 1 THEN x[1] < y[1]
    ELSE IF y = <<0>> THEN FALSE
    ELSE IF x = <<0>> THEN TRUE
    ELSE IF Top(x) # Top(y) THEN Top(x) < Top(y)
    ELSE LessLimbs(Align(x, Common(x, y)), Align(y, Common(x, y)))

\* x - y, for x >= y
Subtract(x, y) ==
    IF Len(x) = 1 /\ Len(y) = 1 THEN <<x[1] - y[1]>>
    ELSE IF y = <<0>> \/ Top(y) < Top(x) - Guard THEN x
    ELSE Pack(Round(SubLimbs(Align(x, Common(x, y)),
                             Align(y, Common(x, y)), 1, 0), FALSE),
              Common(x, y))

\* abs(x - y)
Distance(x, y) == IF Less(x, y) THEN Subtract(y, x) ELSE Subtract(x, y)

\* x * y
Times(x, y) ==
    IF Len(x) = 1 /\ Len(y) = 1 /\ (y[1] = 0 \/ x[1] <= INT_MAX \div y[1])
    THEN <<x[1] * y[1]>>
    ELSE Pack(Round(MulLimbs(Mant(x), Mant(y)), FALSE), Expo(x) + Expo(y))

\* n * 2^e / d for odd d.  The dividend is scaled by 2^s so that the whole
\* part of the quotient has more than Mantissa bits.
Rounded(qr, e) == Pack(Round(qr.q, ~qr.exact), e)
Scaled(n, d, e, s) == Rounded(DivLimbs(ShiftLeft(n, s), d), e - s)
Ratio(n, d, e) == Scaled(n, d, e, Guard + BitLen(d) - BitLen(n))

\* x / y, for y # 0
Over(x, y) ==
    IF Len(x) = 1 /\ Len(y) = 1 /\ x[1] % y[1] = 0
    THEN <<x[1] \div y[1]>>
    ELSE Ratio(Mant(x), ShiftRight(Mant(y), LowZeros(Mant(y))),
               Expo(x) - Expo(y) - LowZeros(Mant(y)))

\* (int) x, for x < 2^31
Truncate(x) ==
    IF Expo(x) >= 0 THEN ToInt(ShiftLeft(Mant(x), Expo(x)))
    ELSE ToInt(ShiftRight(Mant(x), 0 - Expo(x)))

\* printf("%.1f", x): the number of tenths printed, the decimal nearest to
\* x with ties to even; Nearest is n * 2^e to the nearest whole number.
Nearest(n, e) ==
    IF e >= 0 THEN Pack(n, e)
    ELSE IF 0 - e > BitLen(n) THEN <<0>>
    ELSE Pack(ShiftRight(RoundAt(n, 0 - e, FALSE), 0 - e), 0)
Tenths(x) == Nearest(MulSmall(Mant(x), 10, 1, 0), Expo(x))

(***************************************************************************)
(* mysecond(), lines 548-554, and the literals the times are scaled by.    *)
(***************************************************************************)
\* t = (double)clockcounter / CLOCK_PER_SEC
Seconds(clockcounter) == Over(<<clockcounter>>, <<CLOCK_PER_SEC>>)

\* 1.0E-6 (also written 1.0E-06), the double nearest to 1 / 1000000.
Micro == Over(<<1>>, <<1000000>>)

\* 1.0E6 * x
TimesMillion(x) == Times(<<1000000>>, x)

\* FLT_MAX = (2^24 - 1) * 2^104, the initial mintime.
FLT_MAX == Pack(FromInt(2 ^ 24 - 1), 104)

\* MIN(x,y) ((x)<(y)?(x):(y)) and MAX(x,y) ((x)>(y)?(x):(y)) on doubles.
MIN(x, y) == IF Less(x, y) THEN x ELSE y
MAX(x, y) == IF Less(y, x) THEN x ELSE y

(***************************************************************************)
(* atoll and strtoll.  A string is a sequence of one-character strings.    *)
(***************************************************************************)
isspace(ch) == ch \in {" ", "\t", "\n", "", "\f", "\r"}

\* The value of a digit character, -1 for any other character.
DigitVal(ch) ==
    CASE ch = "0" -> 0 [] ch = "1" -> 1 [] ch = "2" -> 2 [] ch = "3" -> 3
      [] ch = "4" -> 4 [] ch = "5" -> 5 [] ch = "6" -> 6 [] ch = "7" -> 7
      [] ch = "8" -> 8 [] ch = "9" -> 9 [] ch = "a" -> 10 [] ch = "b" -> 11
      [] ch = "c" -> 12 [] ch = "d" -> 13 [] ch = "e" -> 14 [] ch = "f" -> 15
      [] ch = "A" -> 10 [] ch = "B" -> 11 [] ch = "C" -> 12 [] ch = "D" -> 13
      [] ch = "E" -> 14 [] ch = "F" -> 15
      [] OTHER -> 0 - 1

IsDigit(ch, base) == DigitVal(ch) >= 0 /\ DigitVal(ch) < base

RECURSIVE SkipSpace(_, _)
SkipSpace(s, i) ==
    IF i <= Len(s) /\ isspace(s[i]) THEN SkipSpace(s, i + 1) ELSE i

\* The digits of s from position i on, accumulated in the given base.
RECURSIVE Accumulate(_, _, _, _)
Accumulate(s, i, base, acc) ==
    IF i <= Len(s) /\ IsDigit(s[i], base)
    THEN Accumulate(s, i + 1, base, W(acc[1] * base, acc[2] * base + DigitVal(s[i])))
    ELSE acc

\* strtoll(s, NULL, base) for base 0, 8, 10 or 16.
strtoll(s, base) ==
    LET i0 == SkipSpace(s, 1)
        neg == i0 <= Len(s) /\ s[i0] = "-"
        i1 == IF i0 <= Len(s) /\ s[i0] \in {"-", "+"} THEN i0 + 1 ELSE i0
        hex == /\ base \in {0, 16}
               /\ i1 + 2 <= Len(s)
               /\ s[i1] = "0" /\ s[i1 + 1] \in {"x", "X"}
               /\ IsDigit(s[i1 + 2], 16)
        radix == IF hex THEN 16
                 ELSE IF base # 0 THEN base
                 ELSE IF i1 <= Len(s) /\ s[i1] = "0" THEN 8 ELSE 10
        i2 == IF hex THEN i1 + 2 ELSE i1
        v == Accumulate(s, i2, radix, <<0, 0>>)
    IN  IF neg THEN WNeg(v) ELSE v

atoll(s) == strtoll(s, 10)

\* (buffer_size+4095)&(~0xFFF)
PageRound_Plus4096(x) == AndNotFFF(WAdd(x, ToW(PageSize)))
PageRound(x) == AndNotFFF(WAdd(x, ToW(PageSize - 1)))

\* offset & (~0xFFF)
PageTrunc(x) == AndNotFFF(x)


(***************************************************************************)
(* Groups of variables.                                                    *)
(***************************************************************************)
inputVars == <<argc, argv, nthreads, advances>>
sizeVars == <<buffer_size, offset, stream_array_size, bytes>>
provVars == <<fid, ptr, mapoff>>
bufVars == <<a, b, c>>
teamVars == <<issued, wl, pos, hits, touched>>
clockVars == <<cycles, timesfound, quantum, t, times>>
statVars == <<avgtime, mintime, maxtime, bestrate>>
endVars == <<chk, released, closed, teardowns>>

Min(x, y) == IF x < y THEN x ELSE y
Max(x, y) == IF x > y THEN x ELSE y

\* The cycles the counter advances between a reading `now` and the next one.
Tick(pattern, now) == pattern[(now % Len(pattern)) + 1]

\* The cycles one reading of the counter takes in the runs of main().
DefaultAdvances == <<20>>
ReadCost == DefaultAdvances[1]

(***************************************************************************)
(* main(), lines 244-261: the usage banner and the byteSize argument.      *)
(***************************************************************************)
ParseSize_KeepNonPositive ==
    /\ pc = "args"
    /\ buffer_size' = IF argc > 1 THEN atoll(argv[1]) ELSE DefaultBufferSize
    /\ out' = Append(out, "usage")
    /\ pc' = "round"
    /\ UNCHANGED <<inputVars, offset, stream_array_size, bytes, provVars,
                   bufVars, teamVars, clockVars, statVars, endVars, exit>>

ParseSize ==
    /\ pc = "args"
    /\ buffer_size' =
          IF argc > 1
          THEN LET v == atoll(argv[1])
               IN  IF WLeqZero(v) THEN DefaultBufferSize ELSE v
          ELSE DefaultBufferSize
    /\ out' = Append(out, "usage")
    /\ pc' = "round"
    /\ UNCHANGED <<inputVars, offset, stream_array_size, bytes, provVars,
                   bufVars, teamVars, clockVars, statVars, endVars, exit>>

(***************************************************************************)
(* main(), lines 263-270: page rounding, the element count, bytes[].       *)
(***************************************************************************)
RoundSize ==
    /\ pc = "round"
    /\ buffer_size' = PageRound(buffer_size)
    /\ stream_array_size' = WDiv(buffer_size', SizeofStreamType)
    /\ bytes' = [j \in Kernels |->
                    IF j < 2 THEN WMul(2, buffer_size') ELSE WMul(3, buffer_size')]
    /\ pc' = IF argc > 2 THEN "offset" ELSE "alloc"
    /\ UNCHANGED <<inputVars, offset, provVars, bufVars, teamVars, clockVars,
                   statVars, endVars, out, exit>>

(***************************************************************************)
(* main(), lines 272-276: the offset argument.                             *)
(***************************************************************************)
ParseOffset ==
    /\ pc = "offset"
    /\ offset' =
          LET o1 == IF argc > 3 THEN strtoll(argv[3], 0) ELSE offset
              o2 == IF WLeqZero(o1) THEN DefaultOffset ELSE o1
          IN  PageTrunc(o2)
    /\ pc' = "open"
    /\ UNCHANGED <<inputVars, buffer_size, stream_array_size, bytes, provVars,
                   bufVars, teamVars, clockVars, statVars, endVars, out, exit>>

(***************************************************************************)
(* main(), lines 278-282: open the device; a failure prints and returns 0. *)
(***************************************************************************)
\* open() returns the lowest descriptor that is free: 0 when the process was
\* started with its standard input closed, a positive one otherwise.
Descriptors == {0, 3}

OpenDevice_NoReturn ==
    /\ pc = "open"
    /\ \E ok \in BOOLEAN :
          IF ok
          THEN /\ fid' \in Descriptors
               /\ pc' = "mmap"
               /\ UNCHANGED <<out, exit>>
          ELSE /\ fid' = 0 - 1
               /\ out' = Append(out, "not_opened")
               /\ pc' = "mmap"
               /\ UNCHANGED exit
    /\ UNCHANGED <<inputVars, sizeVars, ptr, mapoff, bufVars, teamVars,
                   clockVars, statVars, endVars>>

OpenDevice ==
    /\ pc = "open"
    /\ \E ok \in BOOLEAN :
          IF ok
          THEN /\ fid' \in Descriptors
               /\ pc' = "mmap"
               /\ UNCHANGED <<out, exit>>
          ELSE /\ fid' = 0 - 1
               /\ out' = Append(out, "not_opened")
               /\ exit' = "0"
               /\ pc' = "done"
    /\ UNCHANGED <<inputVars, sizeVars, ptr, mapoff, bufVars, teamVars,
                   clockVars, statVars, endVars>>

(***************************************************************************)
(* Memory handed out by mmap or aligned_alloc holds indeterminate values.  *)
(***************************************************************************)
Indeterminate == {0, 7}
Fresh(n, g) == [j \in 0..(n - 1) |-> <<g>>]

(***************************************************************************)
(* main(), lines 284-286: the three mappings.  Each mmap may fail and then *)
(* returns MAP_FAILED, which is the address -1 and not NULL.  The results  *)
(* are not examined.                                                       *)
(***************************************************************************)
MapBuffers ==
    /\ pc = "mmap"
    /\ \E ok \in SUBSET Bufs, g \in Indeterminate :
          /\ ptr' = [bf \in Bufs |-> IF bf \in ok THEN "mmap" ELSE "MAP_FAILED"]
          /\ a' = IF "a" \in ok THEN Fresh(stream_array_size, g) ELSE a
          /\ b' = IF "b" \in ok THEN Fresh(stream_array_size, g) ELSE b
          /\ c' = IF "c" \in ok THEN Fresh(stream_array_size, g) ELSE c
    /\ mapoff' = [bf \in Bufs |->
                    CASE bf = "a" -> offset
                      [] bf = "b" -> WAdd(offset, buffer_size)
                      [] bf = "c" -> WAdd(offset, WMul(2, buffer_size))]
    /\ pc' = "alloc"
    /\ UNCHANGED <<inputVars, sizeVars, fid, teamVars, clockVars, statVars,
                   endVars, out, exit>>

(***************************************************************************)
(* main(), lines 292-294: a pointer that is still NULL gets heap memory.   *)
(* aligned_alloc may fail and then returns NULL.  The results are not      *)
(* examined.                                                               *)
(***************************************************************************)
AllocBuffers ==
    /\ pc = "alloc"
    /\ \E ok \in SUBSET {bf \in Bufs : ptr[bf] = "NULL"}, g \in Indeterminate :
          /\ ptr' = [bf \in Bufs |-> IF bf \in ok THEN "heap" ELSE ptr[bf]]
          /\ a' = IF "a" \in ok THEN Fresh(stream_array_size, g) ELSE a
          /\ b' = IF "b" \in ok THEN Fresh(stream_array_size, g) ELSE b
          /\ c' = IF "c" \in ok THEN Fresh(stream_array_size, g) ELSE c
    /\ pc' = "threads"
    /\ UNCHANGED <<inputVars, sizeVars, fid, mapoff, teamVars, clockVars,
                   statVars, endVars, out, exit>>

(***************************************************************************)
(* main(), lines 296-342: the configuration banner and the thread count.   *)
(***************************************************************************)
CountThreads ==
    /\ pc = "threads"
    /\ out' = Append(out, "config")
    /\ pc' = "loop"
    /\ UNCHANGED <<inputVars, sizeVars, provVars, bufVars, teamVars,
                   clockVars, statVars, endVars, exit>>

(***************************************************************************)
(* The parallel loops.  main() runs 2 + 4 * NTIMES of them in sequence:    *)
(* loop 1 initialises the buffers, loop 2 is the warm-up, and loop         *)
(* 3 + 4 * k + j is kernel j (Copy, Scale, Add, Triad) of round k.         *)
(***************************************************************************)
NLoops == 2 + 4 * NTIMES
KernelOf(l) == (l - 3) % 4
RoundOf(l) == (l - 3) \div 4
LoopKind(l) ==
    CASE l = 1 -> "init"
      [] l = 2 -> "warm"
      [] OTHER -> <<"copy", "scale", "add", "triad">>[KernelOf(l) + 1]
\* The warm-up and the kernels are bracketed by two clock readings.
Timed(l) == l >= 2

\* for (j=0; j<stream_array_size; j++)
LoopLo == 0
LoopHi_SkipLast == stream_array_size - 1
LoopHi == stream_array_size

(***************************************************************************)
(* #pragma omp parallel for: the iterations LoopLo..LoopHi-1 are divided   *)
(* among the team as contiguous chunks, one per thread (static schedule),  *)
(* the first (n % nthreads) threads taking one iteration more.             *)
(***************************************************************************)
ChunkLo(w) ==
    LET n == LoopHi - LoopLo
    IN  LoopLo + w * (n \div nthreads) + Min(w, n % nthreads)
ChunkHi(w) == ChunkLo(w + 1)

Workers == 0..(nthreads - 1)

\* Worker w has no iteration of its loop left.
Finished(w) == wl[w] = 0 \/ pos[w] >= ChunkHi(w)

(***************************************************************************)
(* The loop bodies: the value stored at index j.                           *)
(***************************************************************************)
WarmBody(j) == Times(<<2>>, a[j])
CopyBody(j) == a[j]
ScaleBody(j) == Times(<<scalar>>, c[j])
AddBody(j) == Plus(a[j], b[j])
TriadBody(j) == Plus(b[j], Times(<<scalar>>, c[j]))

NewA(kind, j) ==
    CASE kind = "init" -> <<1>>
      [] kind = "warm" -> WarmBody(j)
      [] kind = "triad" -> TriadBody(j)
      [] OTHER -> a[j]
NewB(kind, j) ==
    CASE kind = "init" -> <<2>>
      [] kind = "scale" -> ScaleBody(j)
      [] OTHER -> b[j]
NewC_ScaleInPlace(kind, j) ==
    CASE kind = "init" -> <<0>>
      [] kind = "copy" -> CopyBody(j)
      [] kind = "scale" -> ScaleBody(j)
      [] kind = "add" -> AddBody(j)
      [] OTHER -> c[j]
NewC(kind, j) ==
    CASE kind = "init" -> <<0>>
      [] kind = "copy" -> CopyBody(j)
      [] kind = "add" -> AddBody(j)
      [] OTHER -> c[j]

\* The elements iteration j of a loop reads or writes.
Accesses(kind, j) ==
    CASE kind = "init" -> {<<"a", j>>, <<"b", j>>, <<"c", j>>}
      [] kind = "warm" -> {<<"a", j>>}
      [] kind = "copy" -> {<<"a", j>>, <<"c", j>>}
      [] kind = "scale" -> {<<"c", j>>, <<"b", j>>}
      [] kind = "add" -> {<<"a", j>>, <<"b", j>>, <<"c", j>>}
      [] kind = "triad" -> {<<"b", j>>, <<"c", j>>, <<"a", j>>}

\* A buffer whose pointer is NULL or MAP_FAILED.
BadPtr(bf) == ptr[bf] \in {"NULL", "MAP_FAILED"}

\* The iteration worker w executes next.
NextIndex(w) == IF Finished(w) /\ wl[w] < issued THEN ChunkLo(w) ELSE pos[w]

\* The stores an iteration has made when it faults.  The statements of the
\* initialisation loop run in the order a[j] = 1.0, b[j] = 2.0, c[j] = 0.0
\* (lines 349-351), and those before the first bad pointer complete; every
\* other loop body is a single statement, whose store does not complete.
StoresMade(kind) ==
    IF kind # "init" \/ BadPtr("a") THEN 0
    ELSE IF BadPtr("b") THEN 1 ELSE 2

(***************************************************************************)
(* The main thread reaches a parallel loop: it takes the opening clock     *)
(* reading (t = mysecond(), times[j][k] = mysecond(); lines 370, 397, 410, *)
(* 423, 436) and the team starts.                                          *)
(***************************************************************************)
OpenLoop ==
    /\ pc = "loop"
    /\ LET l == issued + 1
           now == IF Timed(l) THEN cycles + Tick(advances, cycles) ELSE cycles
       IN  /\ issued' = l
           /\ cycles' = now
           /\ t' = IF l = 2 THEN Seconds(now) ELSE t
           /\ times' = IF l >= 3
                       THEN [times EXCEPT ![KernelOf(l)][RoundOf(l)] =
                                             Seconds(now)]
                       ELSE times
    /\ hits' = [j \in 0..(stream_array_size - 1) |-> 0]
    /\ touched' = [w \in Workers |-> {}]
    /\ pc' = "join"
    /\ UNCHANGED <<inputVars, sizeVars, provVars, bufVars, wl, pos, quantum,
                   timesfound,
                   statVars, endVars, out, exit>>

(***************************************************************************)
(* One step of worker w: it enters the next loop if it has finished its    *)
(* own and the main thread has opened another, and executes up to Block    *)
(* iterations of its chunk.  A store through NULL or MAP_FAILED faults in   *)
(* the first iteration and the signal ends the process; by then each of    *)
(* the other threads has made none, some or all of the stores of its own   *)
(* first iteration that precede the faulting one.                          *)
(***************************************************************************)
WorkerStep(w) ==
    /\ exit = "running"
    /\ LET begin == Finished(w) /\ wl[w] < issued
           l == IF begin THEN wl[w] + 1 ELSE wl[w]
           from == IF begin THEN ChunkLo(w) ELSE pos[w]
           to == Min(from + Block, ChunkHi(w))
           J == from..(to - 1)
           kind == LoopKind(l)
       IN  /\ begin \/ ~Finished(w)
           /\ IF \E bf \in Bufs : BadPtr(bf)
              THEN /\ \E made \in [Workers -> 0..StoresMade(kind)] :
                         LET Fa == {NextIndex(v) : v \in {v \in Workers : made[v] >= 1}}
                             Fb == {NextIndex(v) : v \in {v \in Workers : made[v] >= 2}}
                         IN  /\ made[w] = StoresMade(kind)
                             /\ a' = IF BadPtr("a") THEN a
                                      ELSE [j \in Fa |-> NewA(kind, j)] @@ a
                             /\ b' = IF BadPtr("b") THEN b
                                      ELSE [j \in Fb |-> NewB(kind, j)] @@ b
                   /\ pc' = "crashed"
                   /\ exit' = "SIGSEGV"
                   /\ UNCHANGED <<c, wl, pos, hits, touched, cycles>>
              ELSE /\ a' = [j \in J |-> NewA(kind, j)] @@ a
                   /\ b' = [j \in J |-> NewB(kind, j)] @@ b
                   /\ c' = [j \in J |-> NewC(kind, j)] @@ c
                   /\ wl' = [wl EXCEPT ![w] = l]
                   /\ pos' = [pos EXCEPT ![w] = to]
                   /\ hits' = [j \in J |-> hits[j] + 1] @@ hits
                   /\ touched' = [touched EXCEPT ![w] =
                                    @ \cup UNION {Accesses(kind, j) : j \in J}]
                   /\ cycles' = cycles + 1
                   /\ UNCHANGED <<pc, exit>>
    /\ UNCHANGED <<inputVars, sizeVars, provVars, issued, quantum, t, times,
                   timesfound,
                   statVars, endVars, out>>

(***************************************************************************)
(* The implicit barrier that ends a parallel loop: the main thread goes on *)
(* when every thread of the team has finished the loop.                    *)
(***************************************************************************)
LoopJoined_NoWait == \E w \in Workers : wl[w] = issued /\ pos[w] >= ChunkHi(w)
LoopJoined == \A w \in Workers : wl[w] = issued /\ pos[w] >= ChunkHi(w)

(***************************************************************************)
(* After the loop the main thread takes the closing clock reading          *)
(* (t = 1.0E6 * (mysecond() - t), times[j][k] = mysecond() - times[j][k];  *)
(* lines 377, 408, 421, 434, 447) and goes on: to checktick() after the    *)
(* initialisation, to the summary after the last Triad.                    *)
(***************************************************************************)
CloseLoop ==
    /\ pc = "join"
    /\ exit = "running"
    /\ LoopJoined
    /\ LET l == issued
           now == IF Timed(l) THEN cycles + Tick(advances, cycles) ELSE cycles
       IN  /\ cycles' = now
           /\ t' = IF l = 2 THEN TimesMillion(Subtract(Seconds(now), t))
                    ELSE t
           /\ times' = IF l >= 3
                       THEN [times EXCEPT ![KernelOf(l)][RoundOf(l)] =
                                             Subtract(Seconds(now), @)]
                       ELSE times
           /\ out' = IF l = 2 THEN Append(out, "estimate") ELSE out
           /\ pc' = IF l = 1 THEN "checktick"
                    ELSE IF l = NLoops THEN "summary" ELSE "loop"
    /\ UNCHANGED <<inputVars, sizeVars, provVars, bufVars, teamVars, quantum,
                   timesfound,
                   statVars, endVars, exit>>

(***************************************************************************)
(* checktick(), lines 489-519.  `adv` is the pattern of the numbers of     *)
(* cycles the counter advances from one mysecond() call to the next.  A    *)
(* value of mysecond() is held as the counter reading it was computed      *)
(* from; the comparisons and the conversion to whole microseconds are made *)
(* on the doubles of the readings.                                         *)
(***************************************************************************)
CyclesPerMicro == CLOCK_PER_SEC \div 1000000

\* (later - earlier) < 1.0E-6, for two mysecond() values given by their
\* counter readings.  The three roundings put the computed difference
\* within 1.0E-14 of the exact one, a millionth of a counter cycle, so the
\* doubles decide the comparison only when the readings are exactly one
\* microsecond apart; the difference in cycles decides it otherwise.
UnderMicro(later, earlier) ==
    IF later - earlier # CyclesPerMicro
    THEN later - earlier < CyclesPerMicro
    ELSE Less(Subtract(Seconds(later), Seconds(earlier)), Micro)

\* The first reading after `now` that is not below t1 + 1 microsecond by a
\* whole cycle or more: on the readings before it the loop goes on whatever
\* the rounding.
RECURSIVE SpinBelow(_, _, _)
SpinBelow(t1, now, adv) ==
    LET t2 == now + Tick(adv, now)
    IN  IF t2 - t1 < CyclesPerMicro THEN SpinBelow(t1, t2, adv) ELSE t2

\* while( ((t2=mysecond()) - t1) < 1.0E-6 ) ;
RECURSIVE SpinUntil(_, _, _)
SpinUntil(t1, now, adv) ==
    LET t2 == SpinBelow(t1, now, adv)
    IN  IF UnderMicro(t2, t1) THEN SpinUntil(t1, t2, adv) ELSE t2

\* A sample taken without the while loop.
Sample_NoSpin(now, adv) == now + Tick(adv, now)

\* t1 = mysecond(); the while loop; timesfound[i] = t1 = t2: one sample,
\* from the counter value `now` on.
Sample(now, adv) ==
    SpinUntil(now + Tick(adv, now), now + Tick(adv, now), adv)

\* The M samples, from the counter value `now` on.
RECURSIVE Collect(_, _, _, _)
Collect(i, now, adv, found) ==
    IF Len(found) = M THEN found
    ELSE Collect(i + 1, now, adv,
                 Append(found,
                        Sample(IF i = 0 THEN now ELSE found[i], adv)))

\* Delta = (int)( 1.0E6 * (timesfound[i]-timesfound[i-1]))
\* The product lies within a millionth of a cycle of the exact number of
\* microseconds, so the doubles decide the truncation only when the samples
\* are a whole number of microseconds apart.
Micros(later, earlier) ==
    IF (later - earlier) % CyclesPerMicro # 0
    THEN (later - earlier) \div CyclesPerMicro
    ELSE Truncate(TimesMillion(Subtract(Seconds(later), Seconds(earlier))))
Delta(later, earlier) ==
    IF later >= earlier THEN Micros(later, earlier)
    ELSE 0 - Micros(earlier, later)

\* minDelta after the loop has run from sample i on:
\* minDelta = MIN(minDelta, MAX(Delta,0)) for each of them.
Least(D) == CHOOSE m \in D : \A d \in D : m <= d
MinDelta(found, i, minDelta) ==
    Least({minDelta} \cup
          {Max(Delta(found[k], found[k - 1]), 0) : k \in i..Len(found)})

Ticks(found) ==
    [minDelta |-> MinDelta(found, 2, 1000000), timesfound |-> found]
checktick(now, adv) == Ticks(Collect(0, now, adv, <<>>))

\* main(), lines 356-363.
Checktick ==
    /\ pc = "checktick"
    /\ \E r \in {checktick(cycles, advances)} :
           /\ timesfound' = r.timesfound
           /\ quantum' = IF r.minDelta >= 1 THEN r.minDelta ELSE 1
           /\ cycles' = r.timesfound[M]
           /\ out' = Append(out, IF r.minDelta >= 1 THEN "granularity"
                                                    ELSE "granularity_below_1")
    /\ pc' = "loop"
    /\ UNCHANGED <<inputVars, sizeVars, provVars, bufVars, teamVars, t, times,
                   statVars, endVars, exit>>

(***************************************************************************)
(* main(), lines 450-460: the summary over the repetitions after the       *)
(* first.                                                                  *)
(***************************************************************************)
\* for (k=1; k<NTIMES; k++) /* note -- skip first iteration */
SummaryFrom_First == 1 - 1
SummaryFrom == 1

RECURSIVE SummaryLoop(_, _)
SummaryLoop(k, st) ==
    IF k >= NTIMES THEN st
    ELSE SummaryLoop(k + 1,
            [avg |-> [j \in Kernels |-> Plus(st.avg[j], times[j][k])],
             min |-> [j \in Kernels |-> MIN(st.min[j], times[j][k])],
             max |-> [j \in Kernels |-> MAX(st.max[j], times[j][k])]])

Summary ==
    /\ pc = "summary"
    /\ \E st \in {SummaryLoop(SummaryFrom,
                    [avg |-> avgtime, min |-> mintime, max |-> maxtime])} :
           /\ avgtime' = st.avg
           /\ mintime' = st.min
           /\ maxtime' = st.max
    /\ pc' = "report"
    /\ UNCHANGED <<inputVars, sizeVars, provVars, bufVars, teamVars,
                   clockVars, bestrate, endVars, out, exit>>

(***************************************************************************)
(* main(), lines 462-472: avgtime[j] / (NTIMES-1) and the table.           *)
(***************************************************************************)
\* (double) of a byte count <<hi, lo>>
Bytes(x) == Plus(Times(<<x[1]>>, <<PageSize>>), <<x[2]>>)

\* 1.0E-06 * bytes[j]/mintime[j] as "%12.1f" prints it: the number of
\* tenths of a MB/s.  `moved` is a byte count <<hi, lo>>, `time` a double.
BestRate(moved, time) == Tenths(Over(Times(Micro, Bytes(moved)), time))

Report_RateFromMax ==
    /\ pc = "report"
    /\ avgtime' = [j \in Kernels |-> Over(avgtime[j], <<NTIMES - 1>>)]
    /\ bestrate' = [j \in Kernels |-> BestRate(bytes[j], maxtime[j])]
    /\ out' = Append(out, "summary")
    /\ pc' = "check"
    /\ UNCHANGED <<inputVars, sizeVars, provVars, bufVars, teamVars,
                   clockVars, mintime, maxtime, endVars, exit>>

Report ==
    /\ pc = "report"
    /\ avgtime' = [j \in Kernels |-> Over(avgtime[j], <<NTIMES - 1>>)]
    /\ bestrate' = [j \in Kernels |-> BestRate(bytes[j], mintime[j])]
    /\ out' = Append(out, "summary")
    /\ pc' = "check"
    /\ UNCHANGED <<inputVars, sizeVars, provVars, bufVars, teamVars,
                   clockVars, mintime, maxtime, endVars, exit>>

(***************************************************************************)
(* checkSTREAMresults(), lines 561-677.                                    *)
(***************************************************************************)
\* for (k=0; k<NTIMES; k++)
ReplayRounds_SkipFirst == NTIMES - 1
ReplayRounds == NTIMES

\* n rounds of cj = aj; bj = scalar*cj; cj = aj+bj; aj = bj+scalar*cj.
RECURSIVE Replay(_, _)
Replay(n, v) ==
    IF n = 0 THEN v
    ELSE LET cj1 == v.aj
             bj1 == Times(<<scalar>>, cj1)
             cj2 == Plus(v.aj, bj1)
             aj1 == Plus(bj1, Times(<<scalar>>, cj2))
         IN  Replay(n - 1, [aj |-> aj1, bj |-> bj1, cj |-> cj2])

\* aj, bj, cj after the initialisation, the warm-up and the timing loop.
Expected ==
    Replay(ReplayRounds, [aj |-> Times(<<2>>, <<1>>), bj |-> <<2>>, cj |-> <<0>>])

\* sum += abs(arr[j] - e) for lo <= j < hi in the order of j, from the sum
\* `sum` on; and the sum over all j < n.
RECURSIVE SumErrRange(_, _, _, _, _)
SumErrRange(arr, e, lo, hi, sum) ==
    IF hi <= lo THEN sum
    ELSE IF hi = lo + 1 THEN Plus(sum, Distance(arr[lo], e))
    ELSE LET mid == (lo + hi) \div 2
             low == SumErrRange(arr, e, lo, mid, sum)
         IN  IF Len(low) > 0 THEN SumErrRange(arr, e, mid, hi, low) ELSE low
SumErr_SkipLast(arr, e, n) == SumErrRange(arr, e, 0, n - 1, <<0>>)
SumErr(arr, e, n) == SumErrRange(arr, e, 0, n, <<0>>)

\* epsilon = 1.e-13, the double nearest to 1 / 10^13
epsilon == Over(<<1>>, Times(<<10000000>>, <<1000000>>))

\* abs(aAvgErr/aj) > epsilon, with aAvgErr = aSumErr / (STREAM_TYPE) n
AvgErrExceeds(sumErr, e, n) == Less(epsilon, Over(Over(sumErr, <<n>>), e))

\* abs(a[j]/aj-1.0) > epsilon
RelErrExceeds(x, e) == Less(epsilon, Distance(Over(x, e), <<1>>))

\* The array and the expected value of a buffer.
Array(bf) == CASE bf = "a" -> a [] bf = "b" -> b [] bf = "c" -> c
Scalar(e, bf) == CASE bf = "a" -> e.aj [] bf = "b" -> e.bj [] bf = "c" -> e.cj

\* What the function reports, from the expected values e: the sums of the
\* errors, then the buffers whose average error is too large, then the
\* count of the elements in error of each of those.
Counted(e, sum, bad) ==
    [aj |-> e.aj, bj |-> e.bj, cj |-> e.cj,
     sumErr |-> sum,
     failed |-> bad,
     ierr |-> [bf \in Bufs |->
                 IF bf \in bad
                 THEN Cardinality({j \in 0..(stream_array_size - 1) :
                                      RelErrExceeds(Array(bf)[j],
                                                    Scalar(e, bf))})
                 ELSE 0],
     err |-> Cardinality(bad)]
Judged(e, sum) ==
    Counted(e, sum,
            {bf \in Bufs :
                AvgErrExceeds(sum[bf], Scalar(e, bf), stream_array_size)})
Summed(e) ==
    Judged(e, [bf \in Bufs |->
                 SumErr(Array(bf), Scalar(e, bf), stream_array_size)])
CheckOutcome == Summed(Expected)

CheckResults ==
    /\ pc = "check"
    /\ chk' = CheckOutcome
    /\ out' = out
              \o (IF "a" \in chk'.failed THEN <<"failed_a">> ELSE <<>>)
              \o (IF "b" \in chk'.failed THEN <<"failed_b">> ELSE <<>>)
              \o (IF "c" \in chk'.failed THEN <<"failed_c">> ELSE <<>>)
              \o (IF chk'.err = 0 THEN <<"validates">> ELSE <<>>)
    /\ pc' = "teardown"
    /\ UNCHANGED <<inputVars, sizeVars, provVars, bufVars, teamVars,
                   clockVars, statVars, released, closed, teardowns, exit>>

(***************************************************************************)
(* main(), lines 478-486: the teardown and the return.  Without a device   *)
(* path nothing was assigned to fid, and `if ( fid )` reads an             *)
(* indeterminate value.                                                    *)
(***************************************************************************)
Teardown ==
    /\ pc = "teardown"
    /\ IF argc > 1
       THEN /\ released' = [bf \in Bufs |-> "munmap"]
            /\ \E f \in (IF argc > 2 THEN {fid} ELSE Indeterminate) :
                  closed' = IF f # 0 THEN Append(closed, f) ELSE closed
            /\ teardowns' = teardowns + 1
       ELSE UNCHANGED <<released, closed, teardowns>>
    /\ exit' = "0"
    /\ pc' = "done"
    /\ UNCHANGED <<inputVars, sizeVars, provVars, bufVars, teamVars,
                   clockVars, statVars, chk, out>>

(***************************************************************************)
(* The initial state: main() is entered.  Statics and initialised locals   *)
(* have their initialisers (lines 197-202, 244-245); the other locals are  *)
(* indeterminate and are not read before they are assigned, except fid     *)
(* (see Teardown).                                                         *)
(***************************************************************************)
NoCheck ==
    [aj |-> <<0>>, bj |-> <<0>>, cj |-> <<0>>,
     sumErr |-> [bf \in Bufs |-> <<0>>],
     failed |-> {},
     ierr |-> [bf \in Bufs |-> 0],
     err |-> 0]

\* argv[1..3] for a command line of argc words.
ArgV(n, size, off) ==
    [i \in 1..3 |->
        IF i >= n THEN <<>>
        ELSE CASE i = 1 -> size [] i = 2 -> <<"/">> [] i = 3 -> off]

Entry ==
    /\ pc = "args"
    /\ buffer_size = DefaultBufferSize
    /\ offset = <<0, 0>>
    /\ stream_array_size = 0
    /\ bytes = [j \in Kernels |->
                  ToW((IF j < 2 THEN 2 ELSE 3) * SizeofStreamType * STREAM_ARRAY_SIZE)]
    /\ fid = 0
    /\ ptr = [bf \in Bufs |-> "NULL"]
    /\ mapoff = [bf \in Bufs |-> <<0, 0>>]
    /\ a = <<>> /\ b = <<>> /\ c = <<>>
    /\ issued = 0
    /\ wl = [w \in Workers |-> 0]
    /\ pos = [w \in Workers |-> 0]
    /\ hits = <<>>
    /\ touched = [w \in Workers |-> {}]
    /\ cycles = 0
    /\ quantum = 0
    /\ timesfound = <<>>
    /\ t = <<0>>
    /\ times = [j \in Kernels |-> [k \in 0..(NTIMES - 1) |-> <<0>>]]
    /\ avgtime = [j \in Kernels |-> <<0>>]
    /\ mintime = [j \in Kernels |-> FLT_MAX]
    /\ maxtime = [j \in Kernels |-> <<0>>]
    /\ bestrate = [j \in Kernels |-> <<0>>]
    /\ chk = NoCheck
    /\ released = [bf \in Bufs |-> "none"]
    /\ closed = <<>>
    /\ teardowns = 0
    /\ out = <<>>
    /\ exit = "running"

\* The byteSize and offset arguments of the full runs.
RunSizeArgs == {<<"1">>, <<"4", "0", "9", "7">>}
RunOffsetArgs == {<<"0">>, <<"0", "x", "2", "0", "0", "0">>}

Init ==
    /\ argc \in 1..4
    /\ argv \in {ArgV(argc, s1, s3) : s1 \in RunSizeArgs, s3 \in RunOffsetArgs}
    /\ nthreads \in 1..MaxWorkers
    /\ advances = DefaultAdvances
    /\ Entry

Next ==
    \/ ParseSize
    \/ RoundSize
    \/ ParseOffset
    \/ OpenDevice
    \/ MapBuffers
    \/ AllocBuffers
    \/ CountThreads
    \/ OpenLoop
    \/ \E w \in Workers : WorkerStep(w)
    \/ CloseLoop
    \/ Checktick
    \/ Summary
    \/ Report
    \/ CheckResults
    \/ Teardown

Spec == Init /\ [][Next]_vars

(***************************************************************************)
(* Properties of the full run (specification Spec).                        *)
(***************************************************************************)
Range(f) == {f[x] : x \in DOMAIN f}
Indices == 0..(stream_array_size - 1)

\* The run went through all loops, the summary and the validation.
Validated == pc \in {"teardown", "done"} /\ issued = NLoops

\* C1: once checkSTREAMresults has run after the initialisation, the
\* warm-up and NTIMES rounds of Copy, Scale, Add and Triad, every element of
\* a, b and c equals the scalar aj, bj, cj that checkSTREAMresults obtained
\* by replaying the warm-up and all NTIMES rounds, and no buffer is reported
\* as failed.
C1_ElementsEqualReplay ==
    Validated =>
        /\ \A j \in Indices :
              a[j] = chk.aj /\ b[j] = chk.bj /\ c[j] = chk.cj
        /\ chk.err = 0

C1_Witness ==
    /\ Validated
    /\ NTIMES >= 2 /\ stream_array_size >= 2 /\ nthreads > 1
    /\ Less(<<2>>, chk.aj)
    /\ a[stream_array_size - 1] = chk.aj

\* The buffers have been through lines 284-294 and one of the pointers is
\* MAP_FAILED or NULL.
ProvisionFailed ==
    /\ \/ pc \in {"threads", "loop", "join", "crashed", "checktick", "summary",
                  "report", "check", "teardown"}
       \/ pc = "done" /\ fid >= 0
    /\ \E bf \in Bufs : BadPtr(bf)

\* C2: when provisioning one of the buffers has failed, no loop is started
\* on the buffers (no initialisation, warm-up or kernel), the run does not
\* reach the summary or the validation, and it ends having printed a
\* diagnostic.
C2_ProvisionFailureIsFatal ==
    ProvisionFailed =>
        /\ issued = 0
        /\ pc \notin {"summary", "report", "check", "teardown"}
        /\ exit # "running" => "provision_failed" \in Range(out)

\* C3: in a run that completes, the teardown has run exactly once; a mapped
\* buffer has been unmapped and the descriptor closed; a heap buffer has
\* been released as a heap allocation and no descriptor has been closed.
C3_TeardownMatchesProvisioning ==
    (pc = "done" /\ issued = NLoops) =>
        /\ teardowns = 1
        /\ \A bf \in Bufs :
              /\ ptr[bf] = "mmap" => released[bf] = "munmap"
              /\ ptr[bf] = "heap" => released[bf] = "free"
        /\ closed = IF argc > 2 THEN <<fid>> ELSE <<>>

\* C5: within one parallel loop no element of a, b or c is accessed by two
\* different workers, no iteration is executed twice, and when the loop has
\* ended every index has been processed exactly once.
C5_DisjointChunks ==
    /\ \A w1 \in Workers : \A w2 \in Workers :
          w1 # w2 => touched[w1] \cap touched[w2] = {}
    /\ \A j \in DOMAIN hits : hits[j] <= 1
    /\ (issued >= 1 /\ pc \notin {"join", "crashed"}) =>
          /\ DOMAIN hits = Indices
          /\ \A j \in Indices : hits[j] = 1

C5_Witness ==
    /\ pc = "join"
    /\ issued >= 3 /\ LoopKind(issued) = "triad"
    /\ nthreads > 1
    /\ \A w \in Workers : wl[w] = issued /\ touched[w] # {}
    /\ \E w \in Workers : ~Finished(w)

\* The loops whose closing clock reading the main thread has taken.
ClosedLoops == IF pc \in {"join", "crashed"} THEN issued - 1 ELSE issued

\* C6: a worker has begun a loop only if every worker has finished all its
\* iterations of the loops before it (Copy before Scale, Scale before Add,
\* Add before Triad, Triad before the next round's Copy), and the main
\* thread has taken a loop's closing clock reading only if every worker has
\* finished that loop.
C6_KernelsDoNotOverlap ==
    /\ \A w1 \in Workers : \A w2 \in Workers :
          wl[w2] < wl[w1] => (wl[w2] = wl[w1] - 1 /\ Finished(w2))
    /\ \A w \in Workers :
          /\ wl[w] >= ClosedLoops
          /\ wl[w] = ClosedLoops => Finished(w)

C6_Witness ==
    /\ pc = "join"
    /\ issued >= 3 /\ LoopKind(issued) = "scale"
    /\ \E w1 \in Workers : \E w2 \in Workers :
          /\ wl[w1] = issued /\ ~Finished(w1)
          /\ wl[w2] = issued - 1

\* C9: when the device could not be opened, the error line has been
\* printed, main() has returned 0, and nothing else has happened: no buffer
\* mapped or allocated, no loop started, no summary, no validation, no
\* teardown.
C9_OpenFailureReturns ==
    fid < 0 =>
        /\ pc = "done" /\ exit = "0"
        /\ out = <<"usage", "not_opened">>
        /\ \A bf \in Bufs : ptr[bf] = "NULL" /\ released[bf] = "none"
        /\ a = <<>> /\ b = <<>> /\ c = <<>>
        /\ issued = 0
        /\ chk = NoCheck
        /\ teardowns = 0 /\ closed = <<>>

C9_Witness == fid < 0 /\ argc > 2 /\ pc = "done" /\ exit = "0"

(***************************************************************************)
(* Argument processing on its own (specification SpecArgs): main() from    *)
(* its entry to the point where the device is opened or the heap buffers   *)
(* are allocated, for every argument string of up to MaxArgLen characters  *)
(* of ArgChars and some longer ones.                                       *)
(***************************************************************************)
ArgChars == {"-", "0", "1", "8", "x", "z"}
ShortArgs == UNION {[1..n -> ArgChars] : n \in 0..MaxArgLen}
SizeArgs ==
    ShortArgs \cup
    { <<"4", "0", "9", "5">>, <<"4", "0", "9", "6">>, <<"4", "0", "9", "7">>,
      <<"8", "1", "9", "2">>, <<" ", "7">>, <<"+", "5">>,
      <<"1", "2", "a", "b">>, <<"-", "4", "0", "9", "6">>,
      <<"\t", "7">>, <<"\n", "4", "0", "9", "7">>, <<"\r", "\f", "-", "7">> }
OffsetArgs ==
    ShortArgs \cup
    { <<"0", "x", "1", "0", "0", "0">>, <<"0", "x", "1", "f", "f", "f">>,
      <<"0", "1", "0">>, <<"4", "0", "9", "7">>, <<" ", "+", "9", "0", "0", "0">>,
      <<"0", "x", "2", "0", "0", "0", "z">>, <<"-", "0", "x", "1", "0", "0", "0">>,
      <<"0", "X", "1", "0", "0", "0">>, <<"0", "x", "A", "0", "0", "0">>,
      <<"0", "x", "1", "F", "0", "0", "0">>, <<"\t", "0", "x", "2", "0", "0", "0">> }

InitArgs ==
    /\ argc \in 1..4
    /\ argv \in {ArgV(argc, s1, s3) : s1 \in SizeArgs, s3 \in OffsetArgs}
    /\ nthreads = 1
    /\ advances = DefaultAdvances
    /\ Entry

NextArgs ==
    \/ ParseSize
    \/ RoundSize
    \/ ParseOffset

SpecArgs == InitArgs /\ [][NextArgs]_vars

\* C7: the rounding step turns the requested size into the least multiple
\* of the page size that is not below it: 1 byte becomes one page, one page
\* stays one page, and rounding the rounded size again changes nothing.
C7_RoundsUpToPage ==
    [][(pc = "round" /\ pc' # "round") =>
          /\ buffer_size'[2] = 0
          /\ WLeq(buffer_size, buffer_size')
          /\ WLess(buffer_size', WAdd(buffer_size, ToW(PageSize)))
          /\ PageRound(buffer_size') = buffer_size'
          /\ buffer_size = ToW(1) => buffer_size' = ToW(PageSize)
          /\ buffer_size = ToW(PageSize) => buffer_size' = ToW(PageSize)]_vars

C7_Witness ==
    /\ pc \in {"offset", "alloc"}
    /\ argv[1] = <<"4", "0", "9", "7">>
    /\ buffer_size = ToW(2 * PageSize)
    /\ stream_array_size = (2 * PageSize) \div SizeofStreamType

(***************************************************************************)
(* What an argument string says, read independently of atoll and strtoll:  *)
(* after blanks and one sign comes the longest run of digits of the base.  *)
(***************************************************************************)
RECURSIVE Blanks(_)
Blanks(s) == IF s # <<>> /\ isspace(s[1]) THEN 1 + Blanks(Tail(s)) ELSE 0
Unsigned(s) ==
    LET u == SubSeq(s, Blanks(s) + 1, Len(s))
    IN  IF u # <<>> /\ u[1] \in {"-", "+"} THEN Tail(u) ELSE u
Minus(s) ==
    LET u == SubSeq(s, Blanks(s) + 1, Len(s))
    IN  u # <<>> /\ u[1] = "-"
\* The base strtoll(s, NULL, 0) reads s in.
BaseOf(s) ==
    LET u == Unsigned(s)
    IN  IF Len(u) >= 3 /\ u[1] = "0" /\ u[2] \in {"x", "X"} /\ IsDigit(u[3], 16) THEN 16
        ELSE IF u # <<>> /\ u[1] = "0" THEN 8 ELSE 10
Digits(s, base) ==
    LET u == Unsigned(s)
        d == IF base = 16 THEN SubSeq(u, 3, Len(u)) ELSE u
        n == IF \E i \in 1..Len(d) : ~IsDigit(d[i], base)
             THEN (CHOOSE i \in 1..Len(d) :
                      /\ ~IsDigit(d[i], base)
                      /\ \A k \in 1..(i - 1) : IsDigit(d[k], base)) - 1
             ELSE Len(d)
    IN  SubSeq(d, 1, n)
\* The magnitude the digits denote.
RECURSIVE Magnitude(_, _)
Magnitude(ds, base) ==
    IF ds = <<>> THEN 0
    ELSE Magnitude(SubSeq(ds, 1, Len(ds) - 1), base) * base + DigitVal(ds[Len(ds)])
\* The leading number of s is positive.
LeadsPositive(s, base) == ~Minus(s) /\ Magnitude(Digits(s, base), base) > 0
\* s holds a character that belongs to no number in the base.
Malformed(s, base) ==
    \E i \in 1..Len(s) : /\ ~IsDigit(s[i], base) /\ ~isspace(s[i])
                         /\ s[i] \notin {"-", "+", "x", "X"}

\* C10 as amended: no argument raises an error; a byteSize without a
\* positive leading decimal number is replaced by the default size and one
\* with a positive leading number is taken as that number, whatever
\* follows the digits; an offset that is absent or has no positive leading
\* number is replaced by 0x100000000 and one with a positive leading number
\* is taken as that number; the offset used is that value with its low
\* twelve bits cleared, a multiple of the page size.
C10_AnomaliesGetDefaults ==
    /\ exit = "running" /\ Range(out) \subseteq {"usage"}
    /\ pc = "round" =>
          buffer_size =
             IF argc > 1 /\ LeadsPositive(argv[1], 10)
             THEN ToW(Magnitude(Digits(argv[1], 10), 10))
             ELSE DefaultBufferSize
    /\ pc = "open" =>
          /\ offset[2] = 0
          /\ offset =
                IF argc > 3 /\ LeadsPositive(argv[3], BaseOf(argv[3]))
                THEN <<Magnitude(Digits(argv[3], BaseOf(argv[3])), BaseOf(argv[3]))
                          \div PageSize, 0>>
                ELSE DefaultOffset

C10_Witness ==
    /\ pc = "open"
    /\ argv[1] = <<"-", "1">> /\ buffer_size = ToW(PageSize)
    /\ argv[3] = <<"z">> /\ offset = DefaultOffset

\* C10 as first stated: a non-positive or malformed byteSize is replaced by
\* the default size, and an absent, non-positive or malformed offset by
\* 0x100000000 (then truncated to a page boundary).
C10_MalformedGetsDefault ==
    /\ (pc = "round" /\ argc > 1 /\ Malformed(argv[1], 10)) =>
          buffer_size = DefaultBufferSize
    /\ (pc = "open" /\ argc > 3 /\ Malformed(argv[3], 16)) =>
          offset = DefaultOffset

(***************************************************************************)
(* The state the default run (no arguments, one thread) is in when the     *)
(* timing loop has ended, given the table of measured times.  The measured *)
(* times are an input: they are what the cycle counter happened to show.   *)
(***************************************************************************)
DefaultSize == PageRound(DefaultBufferSize)
DefaultLen == WDiv(DefaultSize, SizeofStreamType)
StepsPerLoop == (DefaultLen + Block - 1) \div Block
\* checktick() in the default run: the initialisation loop has run.
DefaultTick == checktick(StepsPerLoop, DefaultAdvances)
DefaultSamples == DefaultTick.timesfound

\* The counter at the closing reading of the warm-up.
WarmEnd == DefaultSamples[M] + StepsPerLoop + 2 * ReadCost

\* The counter at the opening reading of loop l (of kernel KernelOf(l) in
\* round RoundOf(l)), when the two readings of every timed loop were
\* tbl[j][k] cycles apart.
RECURSIVE OpenedAt(_, _)
OpenedAt(tbl, l) ==
    IF l = 3 THEN WarmEnd + ReadCost
    ELSE OpenedAt(tbl, l - 1) + tbl[KernelOf(l - 1)][RoundOf(l - 1)] + ReadCost

\* times[j][k] of that run.
Measured(tbl) ==
    [j \in Kernels |-> [k \in 0..(NTIMES - 1) |->
        LET from == OpenedAt(tbl, 3 + 4 * k + j)
        IN  Subtract(Seconds(from + tbl[j][k]), Seconds(from))]]

AfterTimingLoop ==
    /\ argc = 1
    /\ argv = ArgV(1, <<>>, <<>>)
    /\ nthreads = 1
    /\ buffer_size = DefaultSize
    /\ offset = <<0, 0>>
    /\ stream_array_size = DefaultLen
    /\ bytes = [j \in Kernels |->
                  IF j < 2 THEN WMul(2, DefaultSize) ELSE WMul(3, DefaultSize)]
    /\ fid = 0
    /\ ptr = [bf \in Bufs |-> "heap"]
    /\ mapoff = [bf \in Bufs |-> <<0, 0>>]
    /\ LET e == Expected
       IN  /\ a = [j \in 0..(DefaultLen - 1) |-> e.aj]
           /\ b = [j \in 0..(DefaultLen - 1) |-> e.bj]
           /\ c = [j \in 0..(DefaultLen - 1) |-> e.cj]
    /\ issued = NLoops
    /\ wl = [w \in 0..0 |-> NLoops]
    /\ pos = [w \in 0..0 |-> DefaultLen]
    /\ hits = [j \in 0..(DefaultLen - 1) |-> 1]
    /\ touched = [w \in 0..0 |->
                     UNION {Accesses("triad", j) : j \in 0..(DefaultLen - 1)}]
    /\ quantum = Max(DefaultTick.minDelta, 1)
    /\ advances = DefaultAdvances
    /\ timesfound = DefaultSamples
    /\ t = TimesMillion(Subtract(Seconds(WarmEnd),
                                  Seconds(WarmEnd - StepsPerLoop - ReadCost)))
    /\ chk = NoCheck
    /\ released = [bf \in Bufs |-> "none"]
    /\ closed = <<>>
    /\ teardowns = 0
    /\ exit = "running"

\* The times and the counter after the timed loops of tbl.
ClockAfter(tbl) ==
    /\ times = Measured(tbl)
    /\ cycles = OpenedAt(tbl, NLoops) + tbl[KernelOf(NLoops)][RoundOf(NLoops)]

(***************************************************************************)
(* Specification SpecSummary: the summary and the report, over tables of   *)
(* measured times (in cycles between the two readings of a loop) in which  *)
(* repetition 0 is the shortest or the longest sample of its kernel, and   *)
(* at most one later repetition is slow.  Copy and Add share one row of    *)
(* times, Scale and Triad another.  The usual time is that of the default  *)
(* run, or one at which the rate lies midway between two tenths.           *)
(***************************************************************************)
UsualTimes == {ReadCost + StepsPerLoop, 655360}
TimeRows(usual) ==
    {[k \in 0..(NTIMES - 1) |->
         IF k = 0 THEN r0 ELSE IF k = slow THEN usual + 3 ELSE usual] :
        r0 \in {usual - 1, usual + 7}, slow \in 1..NTIMES}

InitSummary ==
    /\ pc = "summary"
    /\ AfterTimingLoop
    /\ avgtime = [j \in Kernels |-> <<0>>]
    /\ mintime = [j \in Kernels |-> FLT_MAX]
    /\ maxtime = [j \in Kernels |-> <<0>>]
    /\ bestrate = [j \in Kernels |-> <<0>>]
    /\ out = <<"usage", "config", "granularity", "estimate">>
    /\ \E usual \in UsualTimes : \E even, odd \in TimeRows(usual) :
          ClockAfter([j \in Kernels |-> IF j % 2 = 0 THEN even ELSE odd])

NextSummary == Summary \/ Report

SpecSummary == InitSummary /\ [][NextSummary]_vars

\* The samples of kernel j in the repetitions after the first, and the sum
\* of those up to repetition k.
Later(j) == {times[j][k] : k \in 1..(NTIMES - 1)}
RECURSIVE LaterSum(_, _)
LaterSum(j, k) ==
    IF k < 1 THEN <<0>> ELSE Plus(LaterSum(j, k - 1), times[j][k])

\* C8: for every kernel, the reported minimum and maximum are the least and
\* the greatest sample of repetitions 1..NTIMES-1, the reported average is
\* the sum of these samples divided by NTIMES-1 (the sample of repetition 0
\* takes no part), and minimum <= average <= maximum.
C8_SummarySkipsFirstRepetition ==
    pc = "check" =>
        \A j \in Kernels :
            /\ mintime[j] \in Later(j)
            /\ \A x \in Later(j) : ~Less(x, mintime[j])
            /\ maxtime[j] \in Later(j)
            /\ \A x \in Later(j) : ~Less(maxtime[j], x)
            /\ avgtime[j] = Over(LaterSum(j, NTIMES - 1), <<NTIMES - 1>>)
            /\ ~Less(avgtime[j], mintime[j])
            /\ ~Less(maxtime[j], avgtime[j])

C8_Witness ==
    /\ pc = "check"
    /\ Less(times[0][0], mintime[0])
    /\ Less(maxtime[3], times[3][0])
    /\ Less(mintime[1], maxtime[1])
    /\ Less(mintime[1], avgtime[1])

(***************************************************************************)
(* Specification SpecCheck: the validation of the default run's buffers    *)
(* after one element of c has been changed.                                *)
(***************************************************************************)
RunTimes ==
    [j \in Kernels |-> [k \in 0..(NTIMES - 1) |-> StepsPerLoop + ReadCost]]
\* What the summary and the report make of the times of the default run.
RunSummary ==
    SummaryLoop(SummaryFrom, [avg |-> [j \in Kernels |-> <<0>>],
                              min |-> [j \in Kernels |-> FLT_MAX],
                              max |-> [j \in Kernels |-> <<0>>]])

InitCheck ==
    /\ pc = "check"
    /\ AfterTimingLoop
    /\ ClockAfter(RunTimes)
    /\ \E st \in {RunSummary} :
          /\ avgtime = [j \in Kernels |-> Over(st.avg[j], <<NTIMES - 1>>)]
          /\ mintime = st.min
          /\ maxtime = st.max
    /\ bestrate = [j \in Kernels |-> BestRate(bytes[j], mintime[j])]
    /\ out = <<"usage", "config", "granularity", "estimate", "summary">>

\* The values tried in place of cj: cj moved up or down by 2^-43, 2^-35 or
\* 2^-34 of itself or by 1, 2 or 10, half of cj, twice cj, and 0.
Fractions == {<<0 - 43, 1>>, <<0 - 35, 1>>, <<0 - 34, 1>>}
Moved(cj, by) ==
    {Plus(cj, d) : d \in by} \cup {Subtract(cj, d) : d \in by}
       \cup {Over(cj, <<2>>), Times(<<2>>, cj), <<0>>}
Around(cj) ==
    Moved(cj, {Times(cj, f) : f \in Fractions} \cup {<<1>>, <<2>>, <<10>>})
Deviant == Around(Expected.cj)
CorruptAt == {0, 1, Block - 1, Block, DefaultLen - 1}

\* One element of c is overwritten before checkSTREAMresults() runs.
Corrupt ==
    /\ pc = "check"
    /\ {j \in Indices : c[j] # Expected.cj} = {}
    /\ \E i \in CorruptAt : \E x \in Deviant : c' = [c EXCEPT ![i] = x]
    /\ UNCHANGED <<pc, inputVars, sizeVars, provVars, a, b, teamVars,
                   clockVars, statVars, endVars, out, exit>>

NextCheck == Corrupt \/ CheckResults

SpecCheck == InitCheck /\ [][NextCheck]_vars

\* The elements of c that differ from the expected value.
Corrupted == {j \in Indices : c[j] # chk.cj}
Checked == pc = "teardown"
\* abs(x - cj) exceeds k times epsilon times cj
DeviatesBy(x, k) ==
    Less(Times(Times(<<k>>, epsilon), chk.cj), Distance(x, chk.cj))

\* C4: after a correct run, when one element of c deviates from the expected
\* value cj by more than stream_array_size times epsilon times abs(cj),
\* checkSTREAMresults reports c, and neither a nor b, as failed, and counts
\* at least one element of c in error.
C4_LargeDeviationFailsOnlyC ==
    Checked =>
        \A i \in Corrupted :
            DeviatesBy(c[i], stream_array_size) =>
                /\ chk.failed = {"c"}
                /\ chk.ierr["c"] >= 1
                /\ "failed_c" \in Range(out) /\ "validates" \notin Range(out)

C4_Witness ==
    /\ Checked
    /\ \E i \in Corrupted :
          /\ i = stream_array_size - 1
          /\ DeviatesBy(c[i], stream_array_size)
          /\ ~DeviatesBy(c[i], 2 * stream_array_size)
    /\ chk.failed = {"c"} /\ chk.ierr["c"] = 1

\* C4 as first stated: when one element of c deviates from cj by more than
\* epsilon times abs(cj), c and no other buffer is reported as failed, with
\* an error count of at least 1.
C4_AnyDeviationFailsOnlyC ==
    Checked =>
        \A i \in Corrupted :
            DeviatesBy(c[i], 1) =>
                /\ chk.failed = {"c"}
                /\ chk.ierr["c"] >= 1

(***************************************************************************)
(* Specification SpecTick: checktick() in the default run (no arguments,   *)
(* one thread), entered after the initialisation loop, over counters that  *)
(* start at different values and advance in different patterns.  Every     *)
(* pattern is a monotonic clock: each reading is later than the one before.*)
(***************************************************************************)
ClockAdvances ==
    { <<10>>, <<25>>, <<40, 70, 130>>, <<99>>, <<100>>, <<100, 130, 250>>,
      <<250>>, <<1000, 301, 202>>, <<7, 13, 4>> }
StartCycles ==
    {StepsPerLoop, StepsPerLoop + 1, 99, 100, 1000, 12345, 99999, 1000003}

AfterInitLoop ==
    /\ argc = 1
    /\ argv = ArgV(1, <<>>, <<>>)
    /\ nthreads = 1
    /\ buffer_size = DefaultSize
    /\ offset = <<0, 0>>
    /\ stream_array_size = DefaultLen
    /\ bytes = [j \in Kernels |->
                  IF j < 2 THEN WMul(2, DefaultSize) ELSE WMul(3, DefaultSize)]
    /\ fid = 0
    /\ ptr = [bf \in Bufs |-> "heap"]
    /\ mapoff = [bf \in Bufs |-> <<0, 0>>]
    /\ a = [j \in 0..(DefaultLen - 1) |-> <<1>>]
    /\ b = [j \in 0..(DefaultLen - 1) |-> <<2>>]
    /\ c = [j \in 0..(DefaultLen - 1) |-> <<0>>]
    /\ issued = 1
    /\ wl = [w \in 0..0 |-> 1]
    /\ pos = [w \in 0..0 |-> DefaultLen]
    /\ hits = [j \in 0..(DefaultLen - 1) |-> 1]
    /\ touched = [w \in 0..0 |->
                     UNION {Accesses("init", j) : j \in 0..(DefaultLen - 1)}]
    /\ quantum = 0
    /\ timesfound = <<>>
    /\ t = <<0>>
    /\ times = [j \in Kernels |-> [k \in 0..(NTIMES - 1) |-> <<0>>]]
    /\ avgtime = [j \in Kernels |-> <<0>>]
    /\ mintime = [j \in Kernels |-> FLT_MAX]
    /\ maxtime = [j \in Kernels |-> <<0>>]
    /\ bestrate = [j \in Kernels |-> <<0>>]
    /\ chk = NoCheck
    /\ released = [bf \in Bufs |-> "none"]
    /\ closed = <<>>
    /\ teardowns = 0
    /\ out = <<"usage", "config">>
    /\ exit = "running"

InitTick ==
    /\ pc = "checktick"
    /\ AfterInitLoop
    /\ cycles \in StartCycles
    /\ advances \in ClockAdvances

NextTick == Checktick

SpecTick == InitTick /\ [][NextTick]_vars

\* checktick() has returned and main() has stored its result.
Ticked == pc = "loop" /\ issued = 1 /\ timesfound # <<>>

\* timesfound[i] - timesfound[i-1], the difference of the doubles of two
\* consecutive samples, and its whole microseconds.
Gap(i) == Subtract(Seconds(timesfound[i]), Seconds(timesfound[i - 1]))
Deltas == {Truncate(TimesMillion(Gap(i))) : i \in 2..Len(timesfound)}
LeastDelta == CHOOSE d \in Deltas : \A e \in Deltas : d <= e

\* Every reading of the clock is at least 1 microsecond after the previous.
CoarseClock == \A i \in 1..Len(advances) : advances[i] >= CyclesPerMicro

\* C11: with a monotonic clock checktick collects M samples that are
\* strictly increasing, each at least 1 microsecond after the one before;
\* the granularity main() keeps is the least difference of consecutive
\* samples in whole microseconds, clamped to non-negative, or 1 when that
\* is below 1; and the value is >= 1, and printed as the granularity,
\* whenever the clock is coarser than 1 microsecond.
C11_ChecktickGranularity ==
    Ticked =>
        /\ Len(timesfound) = M
        /\ \A i \in 2..M :
              /\ timesfound[i] > timesfound[i - 1]
              /\ timesfound[i] - timesfound[i - 1] >= CyclesPerMicro
              /\ ~Less(Gap(i), Micro)
        /\ quantum = IF Max(LeastDelta, 0) >= 1 THEN Max(LeastDelta, 0) ELSE 1
        /\ out[Len(out)] = IF Max(LeastDelta, 0) >= 1
                           THEN "granularity" ELSE "granularity_below_1"
        /\ CoarseClock => (quantum >= 1 /\ out[Len(out)] = "granularity")

\* checktick has returned with samples whose differences are not all the
\* same, the least of them above 1 microsecond.
C11_Witness ==
    /\ Ticked
    /\ Cardinality(Deltas) > 1
    /\ quantum = LeastDelta
    /\ quantum > 1

(***************************************************************************)
(* Specification SpecRate: the Best Rate column.  The summary and the      *)
(* report run on the default run's state over the tables of measured       *)
(* times, and the size argument is processed for runs whose buffers are    *)
(* too large to carry through the loops.                                   *)
(***************************************************************************)
RateSizeArgs ==
    { <<"1">>, <<"4", "0", "9", "7">>, <<"8", "0", "0", "0", "0">>,
      <<"8", "0", "0", "0", "0", "0", "0", "0">> }

InitSized ==
    /\ argc = 2
    /\ argv \in {ArgV(2, s1, <<>>) : s1 \in RateSizeArgs}
    /\ nthreads = 1
    /\ advances = DefaultAdvances
    /\ Entry

InitRate == InitSummary \/ InitSized

NextRate ==
    \/ ParseSize
    \/ RoundSize
    \/ Summary
    \/ Report

SpecRate == InitRate /\ [][NextRate]_vars

\* The least sample of kernel j in the repetitions after the first.
LeastLater(j) == CHOOSE m \in Later(j) : \A x \in Later(j) : ~Less(x, m)

\* 1e-6 * moved / time as printed with one decimal, in tenths, for the
\* number of bytes `moved` as a pair
Printed(moved, time) == Tenths(Over(Times(Micro, Bytes(moved)), time))

\* The size argument has been taken and rounded.
Sized == pc = "alloc" /\ argc = 2
EightyMillion == <<"8", "0", "0", "0", "0", "0", "0", "0">>
\* 0.01 s
Centisecond == Over(<<1>>, <<100>>)

\* C12: the rate reported for kernel j is 1e-6 * bytes[j] / mintime[j],
\* where bytes[j] is 2 (Copy, Scale) or 3 (Add, Triad) times the page-rounded
\* buffer_size and mintime[j] the least time of repetitions 1..NTIMES-1.
\* A run asked for 80,000,000 bytes (10,000,000 elements of 8 bytes) has
\* buffers of 80,003,072 bytes, 10,000,384 elements, and with a least Copy
\* time of 0.01 s its Copy rate is reported as 16000.6 MB/s.
C12_BestRate ==
    /\ pc = "check" =>
          \A j \in Kernels :
              bestrate[j] = Printed(WMul(IF j < 2 THEN 2 ELSE 3, buffer_size),
                                    LeastLater(j))
    /\ Sized =>
          \A j \in Kernels :
              bytes[j] = WMul(IF j < 2 THEN 2 ELSE 3, buffer_size)
    /\ (Sized /\ argv[1] = EightyMillion) =>
          /\ buffer_size = <<19532, 0>>
          /\ stream_array_size = 10000384
          /\ BestRate(bytes[0], Centisecond) = <<160006>>

C12_Witness ==
    /\ pc = "check"
    /\ Less(mintime[0], maxtime[0])
    /\ Less(times[0][0], mintime[0])
    /\ Less(<<0>>, bestrate[0]) /\ Less(bestrate[0], bestrate[2])

\* C12 as first stated: the rate is 1e-6 * bytes moved / least time, and a
\* run of 10,000,000 elements of 8 bytes with a least Copy time of 0.01 s
\* reports 16000.0 MB/s for Copy.
C12_SixteenThousand ==
    /\ pc = "check" =>
          \A j \in Kernels :
              bestrate[j] = Printed(WMul(IF j < 2 THEN 2 ELSE 3, buffer_size),
                                    LeastLater(j))
    /\ (Sized /\ argv[1] = EightyMillion) =>
          /\ stream_array_size = 10000000
          /\ BestRate(bytes[0], Centisecond) = <<160000>>

(***************************************************************************)
(* Frame properties of the full run (specification Spec).                  *)
(***************************************************************************)
\* The loop a step of the team works on, or 0 when no worker moved.
SteppedLoop ==
    IF \E w \in Workers : wl'[w] # wl[w] \/ pos'[w] # pos[w]
    THEN LET w == CHOOSE w \in Workers : wl'[w] # wl[w] \/ pos'[w] # pos[w]
         IN  wl'[w]
    ELSE 0

\* C13: a step of Copy or Add changes no element of a and b, a step of
\* Scale none of a and c, a step of Triad or of the warm-up none of b and c;
\* checktick, the summary, the report and checkSTREAMresults change no
\* element of a, b and c, and neither does any step after the last Triad
\* has ended, up to and including the validation.
C13_FrameEffects ==
    [][ /\ (SteppedLoop >= 2 /\ LoopKind(SteppedLoop) \in {"copy", "add"}) =>
              (a' = a /\ b' = b)
        /\ (SteppedLoop >= 2 /\ LoopKind(SteppedLoop) = "scale") =>
              (a' = a /\ c' = c)
        /\ (SteppedLoop >= 2 /\ LoopKind(SteppedLoop) \in {"triad", "warm"}) =>
              (b' = b /\ c' = c)
        /\ pc \in {"checktick", "summary", "report", "check"} =>
              (a' = a /\ b' = b /\ c' = c)
        /\ (issued = NLoops /\ LoopJoined /\ pc # "teardown") =>
              (a' = a /\ b' = b /\ c' = c)
      ]_vars

C13_Witness ==
    /\ pc = "teardown" /\ issued = NLoops
    /\ "validates" \in Range(out)
    /\ argc > 2 /\ nthreads > 1
    /\ \A bf \in Bufs : ptr[bf] = "mmap"
    /\ a[0] = Plus(b[0], Times(<<scalar>>, c[0]))
    /\ c[0] # b[0] /\ a[0] # c[0]

==========================================================================
